---- MODULE Spec2Model ----
(***************************************************************************)
(* Model of the Go package "markdown" (ms1963/markdown).                   *)
(*                                                                         *)
(* Two implementations of the Document live in the repository:             *)
(*   - the flavored library (content, flavor, useColor), whose operations  *)
(*     validate their input;                                               *)
(*   - the heading-tracking variant (content, headings), whose operations  *)
(*     append unconditionally and which keeps the heading log.             *)
(*                                                                         *)
(* A Go string is a TLA+ string; TLC evaluates Len, \o and SubSeq on       *)
(* strings, so every text below is handled character by character.         *)
(***************************************************************************)
EXTENDS Integers, Sequences, FiniteSets, TLC

VARIABLES
    content,     \* flavored library: md.content (strings.Builder)
    flavor,      \* flavored library: md.flavor
    useColor,    \* flavored library: md.useColor
    call,        \* the last call made on the Document (operation and arguments)
    before,      \* md.content as it was when the last call started
    ret,         \* the string returned by the last call ("" for a void call)
    panicked,    \* TRUE once a call has ended in a run-time panic
    headings,    \* heading-tracking variant: md.headings
    nops,        \* number of calls made so far
    twin,        \* a second Document that receives the same calls
    callers,     \* the goroutines that share the Document, and where each is
    mutex        \* the lock the callers put around the Document, if any

vars == <<content, flavor, useColor, call, before, ret, panicked, headings, nops,
          twin, callers, mutex>>

(***************************************************************************)
(* Bounds of the model.                                                    *)
(***************************************************************************)
MaxOps == 2          \* calls made on one Document
MaxText == 3         \* length of the texts given to Escape
MaxRows == 3         \* rows of a Table call
MaxAlign == 2        \* entries of the align list of a Table call
MaxItems == 3        \* items and checked flags of a TaskList call
LevelSlack == 2      \* how far outside 1..6 the heading levels reach
MaxFormats == 3      \* formats given to ApplyFormatting and Paragraph
MaxGroups == 3       \* groups of a NestedList call
MaxTocOps == 5       \* calls made on a Document of headings and tables of contents

(***************************************************************************)
(* Go run-time library.                                                    *)
(***************************************************************************)
\* The lexer accepts a backtick in a string only when a quote follows it.
Backtick == SubSeq("`'", 1, 1)

CharAt(s, i) == SubSeq(s, i, i)

\* strings.Builder.WriteString: the bytes of s are appended to the buffer.
WriteStringPrepend(b, s) == s \o b
WriteString(b, s) == b \o s

\* strings.Repeat(s, count); it panics for a negative count.
RECURSIVE Repeat(_, _)
Repeat(s, count) == IF count <= 0 THEN "" ELSE s \o Repeat(s, count - 1)

RepeatPanics(count) == count < 0

\* strings.Join(elems, sep)
RECURSIVE Join(_, _)
Join(elems, sep) ==
    IF Len(elems) = 0 THEN ""
    ELSE IF Len(elems) = 1 THEN elems[1]
    ELSE elems[1] \o sep \o Join(Tail(elems), sep)

\* strings.ReplaceAll(s, old, new) for a non-empty old: the non-overlapping
\* occurrences of old are replaced from left to right.
RECURSIVE ReplaceAll(_, _, _)
ReplaceAll(s, old, new) ==
    LET at == { i \in 1..(Len(s) - Len(old) + 1) :
                   SubSeq(s, i, i + Len(old) - 1) = old }
    IN  IF at = {} THEN s
        ELSE LET i == CHOOSE k \in at : \A j \in at : k <= j
             IN  SubSeq(s, 1, i - 1) \o new
                 \o ReplaceAll(SubSeq(s, i + Len(old), Len(s)), old, new)

\* fmt.Sprintf("%d", n) for n >= 0
Digit(d) == CharAt("0123456789", d + 1)

RECURSIVE Itoa(_)
Itoa(n) == IF n < 10 THEN Digit(n) ELSE Itoa(n \div 10) \o Digit(n % 10)

(***************************************************************************)
(* The flavored library.  Each operator takes the buffer b and the         *)
(* arguments of the call and yields the buffer after the call.             *)
(***************************************************************************)
StandardMarkdown == 0
GitHubMarkdown == 1
JupyterMarkdown == 2

\* New(flavor, useColor): the zero strings.Builder is the empty buffer.
NewFlavorBanner(f, c) ==
    [content |-> IF f = GitHubMarkdown THEN "<!-- gfm -->\n" ELSE "",
     flavor |-> f, useColor |-> c]
New(f, c) == [content |-> "", flavor |-> f, useColor |-> c]

\* keys := []string{"title", "author", "date"}
FrontMatterKeysAuthorFirst == <<"author", "title", "date">>
FrontMatterKeys == <<"title", "author", "date">>

RECURSIVE FrontMatterLoop(_, _, _)
FrontMatterLoop(b, metadata, k) ==
    IF k > Len(FrontMatterKeys) THEN b
    ELSE LET key == FrontMatterKeys[k] IN
         IF key \in DOMAIN metadata
         THEN FrontMatterLoop(
                  WriteString(b, key \o ": \"" \o metadata[key] \o "\"\n"),
                  metadata, k + 1)
         ELSE FrontMatterLoop(b, metadata, k + 1)

FrontMatter(b, metadata) ==
    WriteString(FrontMatterLoop(WriteString(b, "---\n"), metadata, 1), "---\n\n")

MinLevel == 1
MaxLevel == 6

\* if level < 1 || level > 6 { level = 1 }
HeadingLevelClamp(level) ==
    IF level < MinLevel THEN MinLevel
    ELSE IF level > MaxLevel THEN MaxLevel ELSE level
HeadingLevel(level) ==
    IF level < MinLevel \/ level > MaxLevel THEN MinLevel ELSE level

Heading(b, level, text, id, attributes) ==
    IF text = "" THEN b
    ELSE LET header0 == Repeat("#", HeadingLevel(level)) \o " " \o text
             header1 == IF id # "" THEN header0 \o " {#" \o id \o "}" ELSE header0
             header2 == IF attributes # ""
                        THEN header1 \o " {" \o attributes \o "}" ELSE header1
         IN  WriteString(b, header2 \o "\n\n")

\* strings.Repeat is reached only for a non-empty text.
HeadingPanics(level, text) == text # "" /\ RepeatPanics(HeadingLevel(level))

FormatWrap(text, format) ==
    CASE format = "strikethrough" -> "~~" \o text \o "~~"
      [] format = "bold"          -> "**" \o text \o "**"
      [] format = "italic"        -> "_" \o text \o "_"
      [] format = "underline"     -> "<u>" \o text \o "</u>"
      [] format = "subscript"     -> "<sub>" \o text \o "</sub>"
      [] format = "superscript"   -> "<sup>" \o text \o "</sup>"
      [] format = "code"          -> Backtick \o text \o Backtick
      [] OTHER                    -> text

\* for i := len(formats) - 1; i >= 0; i-- (i is 0-based, formats is 1-based)
RECURSIVE ApplyFormattingLoopForward(_, _, _)
ApplyFormattingLoopForward(text, formats, i) ==
    IF i < 0 THEN text
    ELSE ApplyFormattingLoopForward(
             FormatWrap(text, formats[Len(formats) - i]), formats, i - 1)

RECURSIVE ApplyFormattingLoop(_, _, _)
ApplyFormattingLoop(text, formats, i) ==
    IF i < 0 THEN text
    ELSE ApplyFormattingLoop(FormatWrap(text, formats[i + 1]), formats, i - 1)

ApplyFormatting(text, formats) ==
    ApplyFormattingLoop(text, formats, Len(formats) - 1)

Paragraph(b, text, formats) ==
    IF text = "" THEN b
    ELSE WriteString(b, ApplyFormatting(text, formats) \o "\n\n")

CodeBlock(b, language, code) ==
    IF code = "" THEN b
    ELSE WriteString(b, Backtick \o Backtick \o Backtick \o language \o "\n"
                        \o code \o "\n"
                        \o Backtick \o Backtick \o Backtick \o "\n\n")

ReferenceLink(b, label, text, url) ==
    IF label = "" \/ text = "" \/ url = "" THEN b
    ELSE WriteString(WriteString(b, "[" \o label \o "]: " \o text \o "\n"),
                     "[" \o text \o "](" \o url \o ")\n\n")

Image(b, altText, url) ==
    IF altText = "" \/ url = "" THEN b
    ELSE WriteString(b, "![" \o altText \o "](" \o url \o ")\n\n")

\* for i, item := range items (i is 0-based, items is 1-based)
RECURSIVE ListLoopFromZero(_, _, _, _)
ListLoopFromZero(b, items, isOrdered, i) ==
    IF i >= Len(items) THEN b
    ELSE ListLoopFromZero(
             IF isOrdered
             THEN WriteString(b, Itoa(i) \o ". " \o items[i + 1] \o "\n")
             ELSE WriteString(b, "- " \o items[i + 1] \o "\n"),
             items, isOrdered, i + 1)

RECURSIVE ListLoop(_, _, _, _)
ListLoop(b, items, isOrdered, i) ==
    IF i >= Len(items) THEN b
    ELSE ListLoop(
             IF isOrdered
             THEN WriteString(b, Itoa(i + 1) \o ". " \o items[i + 1] \o "\n")
             ELSE WriteString(b, "- " \o items[i + 1] \o "\n"),
             items, isOrdered, i + 1)

List(b, items, isOrdered) ==
    IF Len(items) = 0 THEN b
    ELSE WriteString(ListLoop(b, items, isOrdered, 0), "\n")

RECURSIVE NestedInnerLoopByItem(_, _, _, _, _)
NestedInnerLoopByItem(b, items, isOrdered, i, j) ==
    IF j >= Len(items) THEN b
    ELSE NestedInnerLoopByItem(
             IF isOrdered
             THEN WriteString(b, Itoa(j + 1) \o ". " \o items[j + 1] \o "\n")
             ELSE IF j = 0
                  THEN WriteString(b, "- " \o items[j + 1] \o "\n")
                  ELSE WriteString(b, "  - " \o items[j + 1] \o "\n"),
             items, isOrdered, i, j + 1)

RECURSIVE NestedInnerLoop(_, _, _, _, _)
NestedInnerLoop(b, items, isOrdered, i, j) ==
    IF j >= Len(items) THEN b
    ELSE NestedInnerLoop(
             IF isOrdered
             THEN WriteString(b, Itoa(i + 1) \o ". " \o items[j + 1] \o "\n")
             ELSE IF j = 0
                  THEN WriteString(b, "- " \o items[j + 1] \o "\n")
                  ELSE WriteString(b, "  - " \o items[j + 1] \o "\n"),
             items, isOrdered, i, j + 1)

RECURSIVE NestedOuterLoop(_, _, _, _)
NestedOuterLoop(b, nestedItems, isOrdered, i) ==
    IF i >= Len(nestedItems) THEN b
    ELSE NestedOuterLoop(
             NestedInnerLoop(b, nestedItems[i + 1], isOrdered, i, 0),
             nestedItems, isOrdered, i + 1)

NestedList(b, nestedItems, isOrdered) ==
    IF Len(nestedItems) = 0 THEN b
    ELSE WriteString(NestedOuterLoop(b, nestedItems, isOrdered, 0), "\n")

AlignCell(a) ==
    CASE a = "left"   -> ":---|"
      [] a = "center" -> ":---:|"
      [] a = "right"  -> "---:|"
      [] OTHER        -> "---|"

RECURSIVE AlignmentLoop(_, _, _)
AlignmentLoop(alignment, align, k) ==
    IF k > Len(align) THEN alignment
    ELSE AlignmentLoop(alignment \o AlignCell(align[k]), align, k + 1)

AlignmentByHeaders(headers, align) ==
    AlignmentLoop("|", [k \in 1..Len(headers) |->
                           IF k <= Len(align) THEN align[k] ELSE ""], 1)
Alignment(headers, align) == AlignmentLoop("|", align, 1)

TableRowSkipped(row, headers) == Len(row) # Len(headers)

RECURSIVE TableRowsStopAtBadRow(_, _, _, _)
TableRowsStopAtBadRow(b, headers, rows, k) ==
    IF k > Len(rows) THEN b
    ELSE IF Len(rows[k]) # Len(headers) THEN b
    ELSE TableRowsStopAtBadRow(
             WriteString(b, "| " \o Join(rows[k], " | ") \o " |\n"),
             headers, rows, k + 1)

RECURSIVE TableRows(_, _, _, _)
TableRows(b, headers, rows, k) ==
    IF k > Len(rows) THEN b
    ELSE IF TableRowSkipped(rows[k], headers)
    THEN TableRows(b, headers, rows, k + 1)
    ELSE TableRows(WriteString(b, "| " \o Join(rows[k], " | ") \o " |\n"),
                   headers, rows, k + 1)

TableEmptyBoth(headers, rows) == Len(headers) = 0 /\ Len(rows) = 0
TableEmpty(headers, rows) == Len(headers) = 0 \/ Len(rows) = 0

Table(b, headers, rows, align) ==
    IF TableEmpty(headers, rows) THEN b
    ELSE LET headerLine == "| " \o Join(headers, " | ") \o " |\n"
             alignment == Alignment(headers, align)
         IN  WriteString(
                 TableRows(WriteString(b, headerLine \o alignment \o "\n"),
                           headers, rows, 1),
                 "\n")

BlockquoteNoNewline(b, text) ==
    IF text = "" THEN b ELSE WriteString(b, "> " \o text)
Blockquote(b, text) ==
    IF text = "" THEN b ELSE WriteString(b, "> " \o text \o "\n\n")

HorizontalRuleAfterBlank(b) ==
    IF b = "" THEN WriteString(b, "---\n\n") ELSE WriteString(b, "\n---\n\n")
HorizontalRule(b) == WriteString(b, "---\n\n")

FootnoteBlankAfter(b, label, text) ==
    IF label = "" \/ text = "" THEN b
    ELSE WriteString(b, "[" \o label \o "]: " \o text
                        \o " [Return to text](#fn-" \o label \o "-back)\n\n")
Footnote(b, label, text) ==
    IF label = "" \/ text = "" THEN b
    ELSE WriteString(b, "[" \o label \o "]: " \o text
                        \o " [Return to text](#fn-" \o label \o "-back)\n")

RECURSIVE FootnoteLines(_, _, _)
FootnoteLines(b, lines, k) ==
    IF k > Len(lines) THEN b
    ELSE FootnoteLines(WriteString(b, lines[k] \o "\n"), lines, k + 1)

MultiLineFootnoteOwnLine(b, label, lines) ==
    IF label = "" \/ Len(lines) = 0 THEN b
    ELSE WriteString(
             FootnoteLines(WriteString(b, "[" \o label \o "]:\n"), lines, 1),
             "[Return to text](#fn-" \o label \o "-back)\n\n")
MultiLineFootnote(b, label, lines) ==
    IF label = "" \/ Len(lines) = 0 THEN b
    ELSE WriteString(
             FootnoteLines(WriteString(b, "[" \o label \o "]: "), lines, 1),
             "[Return to text](#fn-" \o label \o "-back)\n\n")

\* definitions["Term 1"] of a missing key is the nil slice
DefinitionTermsSwapped == <<"Term 2", "Term 1">>
DefinitionTerms == <<"Term 1", "Term 2">>

Lookup(definitions, term) ==
    IF term \in DOMAIN definitions THEN definitions[term] ELSE <<>>

RECURSIVE DefinitionLines(_, _, _)
DefinitionLines(b, defs, k) ==
    IF k > Len(defs) THEN b
    ELSE DefinitionLines(WriteString(b, ": " \o defs[k] \o "\n"), defs, k + 1)

RECURSIVE DefinitionLoop(_, _, _)
DefinitionLoop(b, definitions, k) ==
    IF k > Len(DefinitionTerms) THEN b
    ELSE LET term == DefinitionTerms[k]
             defs == Lookup(definitions, term)
         IN  IF term = "" \/ Len(defs) = 0
             THEN DefinitionLoop(b, definitions, k + 1)
             ELSE DefinitionLoop(
                      WriteString(
                          DefinitionLines(WriteString(b, term \o "\n"), defs, 1),
                          "\n"),
                      definitions, k + 1)

DefinitionList(b, definitions) ==
    IF DOMAIN definitions = {} THEN b
    ELSE DefinitionLoop(b, definitions, 1)

\* specialChars := `\\` + "`*_{[]}()#+-.!"  The raw string literal `\\` is
\* two backslash characters, so the loop visits the backslash twice.
specialChars == "\\\\" \o Backtick \o "*_{[]}()#+-.!"

EscapeReplacementSame(char) == char
EscapeReplacement(char) == "\\" \o char

RECURSIVE EscapeLoop(_, _)
EscapeLoop(text, k) ==
    IF k > Len(specialChars) THEN text
    ELSE LET char == CharAt(specialChars, k)
             escaped == ReplaceAll(text, char, EscapeReplacement(char))
         IN  IF escaped = text THEN EscapeLoop(text, k + 1)
             ELSE EscapeLoop(escaped, k + 1)

Escape(text) == EscapeLoop(text, 1)

CustomDiv(b, className, divContent) ==
    IF divContent = "" THEN b
    ELSE WriteString(b, "::: " \o className \o "\n" \o divContent \o "\n:::\n\n")

\* if i < len(checked) && checked[i]  (i is 0-based, checked is 1-based)
TaskCheckedGuardShifted(i, checked) == i + 1 < Len(checked)
TaskCheckedGuard(i, checked) == i < Len(checked)

TaskCheck(i, checked) ==
    IF TaskCheckedGuard(i, checked) /\ checked[i + 1] THEN "x" ELSE " "

\* The iterations i .. n-1 of the loop over items.
RECURSIVE TaskListLoopStopAtEmpty(_, _, _, _, _)
TaskListLoopStopAtEmpty(b, items, checked, i, n) ==
    IF i >= n THEN b
    ELSE IF items[i + 1] = "" THEN b
    ELSE TaskListLoopStopAtEmpty(
             WriteString(b, "- [" \o TaskCheck(i, checked) \o "] "
                            \o items[i + 1] \o "\n"),
             items, checked, i + 1, n)

RECURSIVE TaskListLoop(_, _, _, _, _)
TaskListLoop(b, items, checked, i, n) ==
    IF i >= n THEN b
    ELSE IF items[i + 1] = "" THEN TaskListLoop(b, items, checked, i + 1, n)
    ELSE TaskListLoop(
             WriteString(b, "- [" \o TaskCheck(i, checked) \o "] "
                            \o items[i + 1] \o "\n"),
             items, checked, i + 1, n)

TaskList(b, items, checked) ==
    IF Len(items) = 0 THEN b
    ELSE WriteString(TaskListLoop(b, items, checked, 0, Len(items)), "\n")

\* checked[i] is evaluated for a non-empty item that passes the guard; the
\* index expression panics when i is outside the slice.
TaskListPanicsAt(items, checked, i) ==
    /\ items[i + 1] # ""
    /\ TaskCheckedGuard(i, checked)
    /\ i >= Len(checked)

TaskListPanics(items, checked) ==
    \E i \in 0..(Len(items) - 1) : TaskListPanicsAt(items, checked, i)

MermaidDiagram(b, diagram) ==
    IF diagram = "" THEN b
    ELSE WriteString(b, Backtick \o Backtick \o Backtick \o "mermaid\n"
                        \o diagram \o "\n"
                        \o Backtick \o Backtick \o Backtick \o "\n\n")

MathBlock(b, equation) ==
    IF equation = "" THEN b
    ELSE WriteString(b, "$$\n" \o equation \o "\n$$\n\n")

Underline(text) == "<u>" \o text \o "</u>"

Subscript(text) == "<sub>" \o text \o "</sub>"

Superscript(text) == "<sup>" \o text \o "</sup>"

ColorTextAlways(c, text, color) ==
    "<span style=\"color:" \o color \o "\">" \o text \o "</span>"
ColorText(c, text, color) ==
    IF c THEN "<span style=\"color:" \o color \o "\">" \o text \o "</span>"
    ELSE text

GetContent(b) == b

ToHTMLKeepNewlines(b) == "<html>" \o GetContent(b) \o "</html>"
ToHTML(b) == "<html>" \o ReplaceAll(GetContent(b), "\n", "<br>") \o "</html>"

(***************************************************************************)
(* The flavored library as a state machine: one action per method.  The   *)
(* arguments of a call are drawn from the small sets below.                *)
(***************************************************************************)
Flavors == {StandardMarkdown, GitHubMarkdown, JupyterMarkdown}

Texts == {"", "X"}
Levels == {0, 2, 7}
FormatLists == {<<>>, <<"bold", "italic">>}
ItemLists == {<<>>, <<"a", "b">>}
NestedLists == {<<>>, <<<<>>>>, <<<<"a", "b">>, <<"c">>>>}
HeaderLists == {<<>>, <<"h", "g">>}
RowLists == {<<>>, <<<<"c">>>>, <<<<"c">>, <<"c", "d">>>>}
AlignLists == {<<"left">>}
CheckedLists == {<<>>, <<TRUE>>}
TaskItemLists == {<<>>, <<"">>, <<"A", "", "B">>}
MetadataMaps ==
    { [k \in {} |-> ""],
      [k \in {"title", "extra"} |-> "T"],
      [k \in {"date", "author"} |-> "D"] }
DefinitionMaps ==
    { [k \in {} |-> <<>>],
      [k \in {"Term 2", "Other", "Term 1"} |-> <<"d", "e">>],
      [k \in {"Other"} |-> <<"d">>] }

\* One Document used by one caller: no second Document, no goroutines, no lock.
OneCaller ==
    /\ twin = [doc |-> New(StandardMarkdown, FALSE), ret |-> ""]
    /\ callers = <<>>
    /\ mutex = [used |-> FALSE, holder |-> 0]

Init ==
    /\ OneCaller
    /\ content = New(StandardMarkdown, FALSE).content
    /\ flavor \in Flavors
    /\ useColor \in BOOLEAN
    /\ call = [op |-> "New"]
    /\ before = ""
    /\ ret = ""
    /\ panicked = FALSE
    /\ headings = <<>>
    /\ nops = 0

\* A call that writes to the buffer and returns nothing.
Write(c, b) ==
    /\ ~panicked
    /\ nops < MaxOps
    /\ call' = c
    /\ before' = content
    /\ content' = b
    /\ ret' = ""
    /\ panicked' = FALSE
    /\ nops' = nops + 1
    /\ UNCHANGED <<flavor, useColor, headings, twin, callers, mutex>>

\* A call that ends in a panic after it has left b in the buffer.
Panic(c, b) ==
    /\ ~panicked
    /\ nops < MaxOps
    /\ call' = c
    /\ before' = content
    /\ content' = b
    /\ ret' = ""
    /\ panicked' = TRUE
    /\ nops' = nops + 1
    /\ UNCHANGED <<flavor, useColor, headings, twin, callers, mutex>>

\* A call that returns the string r.
ReturnAndAppend(c, r) ==
    /\ ~panicked
    /\ nops < MaxOps
    /\ call' = c
    /\ before' = content
    /\ content' = WriteString(content, r)
    /\ ret' = r
    /\ nops' = nops + 1
    /\ UNCHANGED <<flavor, useColor, panicked, headings, twin, callers, mutex>>
Return(c, r) ==
    /\ ~panicked
    /\ nops < MaxOps
    /\ call' = c
    /\ before' = content
    /\ ret' = r
    /\ nops' = nops + 1
    /\ UNCHANGED <<content, flavor, useColor, panicked, headings, twin, callers, mutex>>

CallFrontMatter ==
    \E metadata \in MetadataMaps :
        Write([op |-> "FrontMatter", metadata |-> metadata],
               FrontMatter(content, metadata))

HeadingCall(level, text, id, attributes) ==
    LET c == [op |-> "Heading", level |-> level, text |-> text, id |-> id,
              attributes |-> attributes]
    IN  IF HeadingPanics(level, text)
        THEN Panic(c, content)
        ELSE Write(c, Heading(content, level, text, id, attributes))

CallHeading ==
    \E level \in Levels, text \in Texts, id \in {"", "i"}, attributes \in {"", "k"} :
        HeadingCall(level, text, id, attributes)

CallParagraph ==
    \E text \in Texts, formats \in FormatLists :
        Write([op |-> "Paragraph", text |-> text, formats |-> formats],
               Paragraph(content, text, formats))

CallCodeBlock ==
    \E language \in {"go"}, code \in Texts :
        Write([op |-> "CodeBlock", language |-> language, code |-> code],
               CodeBlock(content, language, code))

CallReferenceLink ==
    \E label \in {"", "r"}, text \in Texts, url \in {"", "u"} :
        Write([op |-> "ReferenceLink", label |-> label, text |-> text,
                url |-> url],
               ReferenceLink(content, label, text, url))

CallImage ==
    \E altText \in Texts, url \in {"", "u"} :
        Write([op |-> "Image", altText |-> altText, url |-> url],
               Image(content, altText, url))

CallList ==
    \E items \in ItemLists, isOrdered \in BOOLEAN :
        Write([op |-> "List", items |-> items, isOrdered |-> isOrdered],
               List(content, items, isOrdered))

CallNestedList ==
    \E nestedItems \in NestedLists, isOrdered \in BOOLEAN :
        Write([op |-> "NestedList", nestedItems |-> nestedItems,
                isOrdered |-> isOrdered],
               NestedList(content, nestedItems, isOrdered))

TableCall(headers, rows, align) ==
    Write([op |-> "Table", headers |-> headers, rows |-> rows, align |-> align],
           Table(content, headers, rows, align))

CallTable ==
    \E headers \in HeaderLists, rows \in RowLists, align \in AlignLists :
        TableCall(headers, rows, align)

CallBlockquote ==
    \E text \in Texts :
        Write([op |-> "Blockquote", text |-> text], Blockquote(content, text))

CallHorizontalRule ==
    Write([op |-> "HorizontalRule"], HorizontalRule(content))

CallFootnote ==
    \E label \in {"", "1"}, text \in Texts :
        Write([op |-> "Footnote", label |-> label, text |-> text],
               Footnote(content, label, text))

CallMultiLineFootnote ==
    \E label \in {"", "1"}, lines \in ItemLists :
        Write([op |-> "MultiLineFootnote", label |-> label, lines |-> lines],
               MultiLineFootnote(content, label, lines))

CallDefinitionList ==
    \E definitions \in DefinitionMaps :
        Write([op |-> "DefinitionList", definitions |-> definitions],
               DefinitionList(content, definitions))

CallCustomDiv ==
    \E className \in {"note"}, divContent \in Texts :
        Write([op |-> "CustomDiv", className |-> className,
                content |-> divContent],
               CustomDiv(content, className, divContent))

\* The first index at which the call panics; the items before it are written.
FirstPanic(items, checked) ==
    CHOOSE i \in 0..(Len(items) - 1) :
        /\ TaskListPanicsAt(items, checked, i)
        /\ \A j \in 0..(i - 1) : ~TaskListPanicsAt(items, checked, j)

TaskListCall(items, checked) ==
    LET c == [op |-> "TaskList", items |-> items, checked |-> checked]
    IN  IF Len(items) # 0 /\ TaskListPanics(items, checked)
        THEN Panic(c, TaskListLoop(content, items, checked, 0,
                                   FirstPanic(items, checked)))
        ELSE Write(c, TaskList(content, items, checked))

CallTaskList ==
    \E items \in TaskItemLists, checked \in CheckedLists :
        TaskListCall(items, checked)

CallMermaidDiagram ==
    \E diagram \in Texts :
        Write([op |-> "MermaidDiagram", diagram |-> diagram],
               MermaidDiagram(content, diagram))

CallMathBlock ==
    \E equation \in Texts :
        Write([op |-> "MathBlock", equation |-> equation],
               MathBlock(content, equation))

CallEscape ==
    \E text \in {"", "X", "a*b"} :
        Return([op |-> "Escape", text |-> text], Escape(text))

CallApplyFormatting ==
    \E text \in Texts, formats \in FormatLists :
        Return([op |-> "ApplyFormatting", text |-> text, formats |-> formats],
               ApplyFormatting(text, formats))

CallUnderline ==
    \E text \in Texts : Return([op |-> "Underline", text |-> text], Underline(text))

CallSubscript ==
    \E text \in Texts : Return([op |-> "Subscript", text |-> text], Subscript(text))

CallSuperscript ==
    \E text \in Texts :
        Return([op |-> "Superscript", text |-> text], Superscript(text))

CallColorText ==
    \E text \in Texts, color \in {"", "red"} :
        Return([op |-> "ColorText", text |-> text, color |-> color],
               ColorText(useColor, text, color))

CallToHTML == Return([op |-> "ToHTML"], ToHTML(content))

CallGetContent == Return([op |-> "GetContent"], GetContent(content))

Next ==
    \/ CallFrontMatter
    \/ CallHeading
    \/ CallParagraph
    \/ CallCodeBlock
    \/ CallReferenceLink
    \/ CallImage
    \/ CallList
    \/ CallNestedList
    \/ CallTable
    \/ CallBlockquote
    \/ CallHorizontalRule
    \/ CallFootnote
    \/ CallMultiLineFootnote
    \/ CallDefinitionList
    \/ CallCustomDiv
    \/ CallTaskList
    \/ CallMermaidDiagram
    \/ CallMathBlock
    \/ CallEscape
    \/ CallApplyFormatting
    \/ CallUnderline
    \/ CallSubscript
    \/ CallSuperscript
    \/ CallColorText
    \/ CallToHTML
    \/ CallGetContent

Spec == Init /\ [][Next]_vars

(***************************************************************************)
(* The method of the flavored library that a call record names, applied to *)
(* the buffer b.                                                           *)
(***************************************************************************)
Apply(c, b) ==
    CASE c.op = "FrontMatter" -> FrontMatter(b, c.metadata)
      [] c.op = "Heading" -> Heading(b, c.level, c.text, c.id, c.attributes)
      [] c.op = "Paragraph" -> Paragraph(b, c.text, c.formats)
      [] c.op = "CodeBlock" -> CodeBlock(b, c.language, c.code)
      [] c.op = "ReferenceLink" -> ReferenceLink(b, c.label, c.text, c.url)
      [] c.op = "Image" -> Image(b, c.altText, c.url)
      [] c.op = "List" -> List(b, c.items, c.isOrdered)
      [] c.op = "NestedList" -> NestedList(b, c.nestedItems, c.isOrdered)
      [] c.op = "Table" -> Table(b, c.headers, c.rows, c.align)
      [] c.op = "Blockquote" -> Blockquote(b, c.text)
      [] c.op = "HorizontalRule" -> HorizontalRule(b)
      [] c.op = "Footnote" -> Footnote(b, c.label, c.text)
      [] c.op = "MultiLineFootnote" -> MultiLineFootnote(b, c.label, c.lines)
      [] c.op = "DefinitionList" -> DefinitionList(b, c.definitions)
      [] c.op = "CustomDiv" -> CustomDiv(b, c.className, c.content)
      [] c.op = "TaskList" -> TaskList(b, c.items, c.checked)
      [] c.op = "MermaidDiagram" -> MermaidDiagram(b, c.diagram)
      [] c.op = "MathBlock" -> MathBlock(b, c.equation)
      [] OTHER -> b

(***************************************************************************)
(* Specifications of one call with arguments from larger sets.  The call   *)
(* is made on a Document that earlier calls have left in one of the states *)
(* of PriorCalls, with one call left.                                      *)
(***************************************************************************)
PriorCalls ==
    { [op |-> "New"],
      [op |-> "Heading", level |-> 1, text |-> "X", id |-> "", attributes |-> ""],
      [op |-> "Footnote", label |-> "1", text |-> "n"] }

InitPrior ==
    /\ OneCaller
    /\ call \in PriorCalls
    /\ before = New(StandardMarkdown, FALSE).content
    /\ content = Apply(call, before)
    /\ flavor \in Flavors
    /\ useColor \in BOOLEAN
    /\ ret = ""
    /\ panicked = FALSE
    /\ headings = <<>>
    /\ nops = MaxOps - 1

CallHeadingAny ==
    /\ nops < MaxOps
    /\ \E level \in (MinLevel - LevelSlack)..(MaxLevel + LevelSlack),
          text \in {"", "X", "Ab"}, id \in {"", "i"}, attributes \in {"", "k"} :
           HeadingCall(level, text, id, attributes)

SpecHeading == InitPrior /\ [][CallHeadingAny]_vars

\* All sequences of at most n elements of S.
SeqsUpTo(S, n) == UNION { [1..k -> S] : k \in 0..n }

\* All strings of at most n characters of the alphabet A.
RECURSIVE StringsUpTo(_, _)
StringsUpTo(A, n) ==
    IF n = 0 THEN {""}
    ELSE LET shorter == StringsUpTo(A, n - 1)
         IN  shorter \cup { t \o a : t \in shorter, a \in A }

EscapeAlphabet == {"a", "\\", "*", "_", "."}

EscapeTexts ==
    StringsUpTo(EscapeAlphabet, MaxText)
        \cup { CharAt(specialChars, k) : k \in 1..Len(specialChars) }
        \cup { "a*b", "Text with special * characters" }

CallEscapeAny ==
    /\ nops < MaxOps
    /\ \E text \in EscapeTexts :
           Return([op |-> "Escape", text |-> text], Escape(text))

SpecEscape == InitPrior /\ [][CallEscapeAny]_vars

TableHeaderLists == {<<>>, <<"h">>, <<"h", "g">>}
TableRowSet == {<<"c">>, <<"c", "d">>, <<"e", "f">>}
AlignNames == {"left", "center", "right", "justify"}

CallTableAny ==
    /\ nops < MaxOps
    /\ \E headers \in TableHeaderLists, rows \in SeqsUpTo(TableRowSet, MaxRows),
          align \in SeqsUpTo(AlignNames, MaxAlign) :
           TableCall(headers, rows, align)

SpecTable == InitPrior /\ [][CallTableAny]_vars

CallTaskListAny ==
    /\ nops < MaxOps
    /\ \E items \in SeqsUpTo({"", "A", "B"}, MaxItems),
          checked \in SeqsUpTo(BOOLEAN, MaxItems) :
           TaskListCall(items, checked)

SpecTaskList == InitPrior /\ [][CallTaskListAny]_vars

\* A metadata map holds any of the keys below; "extra" and "Title" are not
\* keys that FrontMatter looks up.
MetadataKeys == {"title", "author", "date", "extra", "Title"}
MetadataValues == {"T", "U"}
MetadataMapsAny ==
    UNION { [keys -> MetadataValues] : keys \in SUBSET MetadataKeys }

CallFrontMatterAny ==
    /\ nops < MaxOps
    /\ \E metadata \in MetadataMapsAny :
           Write([op |-> "FrontMatter", metadata |-> metadata],
                 FrontMatter(content, metadata))

SpecFrontMatter == InitPrior /\ [][CallFrontMatterAny]_vars

\* The format names of ApplyFormatting; "plain" is not one of them.
CoreFormatNames == {"strikethrough", "bold", "italic", "code", "plain"}
FormatNames ==
    CoreFormatNames \cup {"underline", "subscript", "superscript"}
FormatListsAny ==
    SeqsUpTo(CoreFormatNames, MaxFormats)
        \cup SeqsUpTo(FormatNames, MaxFormats - 1)

CallApplyFormattingAny ==
    /\ nops < MaxOps
    /\ \E text \in {"X", "Multiple Formats"}, formats \in FormatListsAny :
           Return([op |-> "ApplyFormatting", text |-> text,
                   formats |-> formats],
                  ApplyFormatting(text, formats))

CallParagraphAny ==
    /\ nops < MaxOps
    /\ \E text \in {"", "text"}, formats \in FormatListsAny :
           Write([op |-> "Paragraph", text |-> text, formats |-> formats],
                 Paragraph(content, text, formats))

SpecFormatting ==
    InitPrior /\ [][CallApplyFormattingAny \/ CallParagraphAny]_vars

\* A list long enough for item numbers of two digits.
LongList == [k \in 1..11 |-> "x"]

ItemListsAny ==
    SeqsUpTo({"", "a", "b"}, MaxItems)
        \cup {LongList, <<"Item 1", "Item 2">>}

CallListAny ==
    /\ nops < MaxOps
    /\ \E items \in ItemListsAny, isOrdered \in BOOLEAN :
           Write([op |-> "List", items |-> items, isOrdered |-> isOrdered],
                 List(content, items, isOrdered))

NestedGroups == {<<>>, <<"a">>, <<"a", "b">>, <<"c", "d", "e">>}

NestedListsAny ==
    SeqsUpTo(NestedGroups, MaxGroups)
        \cup { <<<<"Item 1", "Sub-item 1.1">>, <<"Item 2", "Sub-item 2.1">>>>,
               [k \in 1..11 |-> <<"x">>] }

CallNestedListAny ==
    /\ nops < MaxOps
    /\ \E nestedItems \in NestedListsAny, isOrdered \in BOOLEAN :
           Write([op |-> "NestedList", nestedItems |-> nestedItems,
                  isOrdered |-> isOrdered],
                 NestedList(content, nestedItems, isOrdered))

SpecList == InitPrior /\ [][CallListAny \/ CallNestedListAny]_vars

\* A definitions map holds any of the keys below, each with no, one or two
\* definitions.
DefinitionKeys == {"Term 1", "Term 2", "Term 3", "term 1"}
DefinitionValues == {<<>>, <<"d">>, <<"d", "e">>}
DefinitionMapsAny ==
    UNION { [keys -> DefinitionValues] : keys \in SUBSET DefinitionKeys }

CallDefinitionListAny ==
    /\ nops < MaxOps
    /\ \E definitions \in DefinitionMapsAny :
           Write([op |-> "DefinitionList", definitions |-> definitions],
                 DefinitionList(content, definitions))

SpecDefinitionList == InitPrior /\ [][CallDefinitionListAny]_vars

FootnoteLabels == {"", "1", "ab"}

CallFootnoteAny ==
    /\ nops < MaxOps
    /\ \E label \in FootnoteLabels,
          text \in {"", "n", "This is the footnote content."} :
           Write([op |-> "Footnote", label |-> label, text |-> text],
                 Footnote(content, label, text))

FootnoteLinesAny ==
    SeqsUpTo({"", "p", "q"}, MaxItems)
        \cup {<<"This is the first line.", "This is the second line.">>}

CallMultiLineFootnoteAny ==
    /\ nops < MaxOps
    /\ \E label \in FootnoteLabels, lines \in FootnoteLinesAny :
           Write([op |-> "MultiLineFootnote", label |-> label,
                  lines |-> lines],
                 MultiLineFootnote(content, label, lines))

SpecFootnote ==
    InitPrior /\ [][CallFootnoteAny \/ CallMultiLineFootnoteAny]_vars

(***************************************************************************)
(* The heading-tracking variant.  Its Markdown struct has the fields       *)
(* content and headings; its methods do not validate their arguments.      *)
(***************************************************************************)
\* for key, value := range metadata: Go visits a map in an unspecified
\* order; order is the sequence of keys of one visit.
KeyOrders(metadata) ==
    { order \in [1..Cardinality(DOMAIN metadata) -> DOMAIN metadata] :
        \A i, j \in DOMAIN order : i # j => order[i] # order[j] }

RECURSIVE TrackedFrontMatterLoop(_, _, _, _)
TrackedFrontMatterLoop(b, metadata, order, k) ==
    IF k > Len(order) THEN b
    ELSE TrackedFrontMatterLoop(
             WriteString(b, order[k] \o ": \"" \o metadata[order[k]] \o "\"\n"),
             metadata, order, k + 1)

TrackedFrontMatter(b, metadata, order) ==
    WriteString(
        TrackedFrontMatterLoop(WriteString(b, "---\n"), metadata, order, 1),
        "---\n\n")

\* headingText; a level outside 1..6 is replaced by 1
TrackedHeadingText(level, text) ==
    Repeat("#", IF level < 1 \/ level > 6 THEN 1 ELSE level) \o " " \o text

TrackedHeading(b, level, text, id) ==
    LET b1 == WriteString(b, TrackedHeadingText(level, text))
        b2 == IF id # "" THEN WriteString(b1, " {#" \o id \o "}") ELSE b1
    IN  WriteString(b2, "\n\n")

\* md.headings = append(md.headings, Heading{Text: headingText, ID: id})
TrackedHeadingLogOnce(h, level, text, id) ==
    LET r == [Text |-> TrackedHeadingText(level, text), ID |-> id]
    IN  IF \E k \in 1..Len(h) : h[k] = r THEN h ELSE h \o <<r>>
TrackedHeadingLog(h, level, text, id) ==
    h \o <<[Text |-> TrackedHeadingText(level, text), ID |-> id]>>

RECURSIVE TableOfContentsLoopNoAnchor(_, _, _)
TableOfContentsLoopNoAnchor(b, h, k) ==
    IF k > Len(h) THEN b
    ELSE TableOfContentsLoopNoAnchor(
             WriteString(b, "- " \o h[k].Text \o "\n"), h, k + 1)

RECURSIVE TableOfContentsLoop(_, _, _)
TableOfContentsLoop(b, h, k) ==
    IF k > Len(h) THEN b
    ELSE TableOfContentsLoop(
             IF h[k].ID # ""
             THEN WriteString(b, "- " \o h[k].Text \o " {#" \o h[k].ID \o "}\n")
             ELSE WriteString(b, "- " \o h[k].Text \o "\n"),
             h, k + 1)

TableOfContentsAllButLast(b, h) ==
    WriteString(
        TableOfContentsLoop(WriteString(b, "## Table of Contents\n"),
                            SubSeq(h, 1, Len(h) - 1), 1),
        "\n")
TableOfContents(b, h) ==
    WriteString(
        TableOfContentsLoop(WriteString(b, "## Table of Contents\n"), h, 1),
        "\n")

Bold(text) == "**" \o text \o "**"

Italic(text) == "_" \o text \o "_"

Strikethrough(text) == "~~" \o text \o "~~"

InlineCode(text) == Backtick \o text \o Backtick

TrackedFormatWrap(text, format) ==
    CASE format = "bold"          -> Bold(text)
      [] format = "italic"        -> Italic(text)
      [] format = "strikethrough" -> Strikethrough(text)
      [] format = "code"          -> InlineCode(text)
      [] OTHER                    -> text

\* for _, format := range formats
RECURSIVE applyFormattingLoop(_, _, _)
applyFormattingLoop(text, formats, k) ==
    IF k > Len(formats) THEN text
    ELSE applyFormattingLoop(TrackedFormatWrap(text, formats[k]), formats, k + 1)

applyFormatting(text, formats) == applyFormattingLoop(text, formats, 1)

TrackedParagraph(b, text, formats) ==
    WriteString(b, applyFormatting(text, formats) \o "\n\n")

Link(text, url) == "[" \o text \o "](" \o url \o ")"

RECURSIVE UnorderedListLoop(_, _, _)
UnorderedListLoop(b, items, k) ==
    IF k > Len(items) THEN b
    ELSE UnorderedListLoop(WriteString(b, "- " \o items[k] \o "\n"), items, k + 1)

UnorderedList(b, items) == WriteString(UnorderedListLoop(b, items, 1), "\n")

\* for i, item := range items (i is 0-based)
RECURSIVE OrderedListLoop(_, _, _)
OrderedListLoop(b, items, i) ==
    IF i >= Len(items) THEN b
    ELSE OrderedListLoop(
             WriteString(b, Itoa(i + 1) \o ". " \o items[i + 1] \o "\n"),
             items, i + 1)

OrderedList(b, items) == WriteString(OrderedListLoop(b, items, 0), "\n")

\* for level, item := range list (level is 0-based)
RECURSIVE TrackedNestedInner(_, _, _, _)
TrackedNestedInner(b, list, isOrdered, level) ==
    IF level >= Len(list) THEN b
    ELSE LET indent == Repeat("  ", level) IN
         TrackedNestedInner(
             IF isOrdered
             THEN WriteString(b, indent \o Itoa(level + 1) \o ". "
                                 \o list[level + 1] \o "\n")
             ELSE WriteString(b, indent \o "- " \o list[level + 1] \o "\n"),
             list, isOrdered, level + 1)

RECURSIVE TrackedNestedOuter(_, _, _, _)
TrackedNestedOuter(b, lists, isOrdered, k) ==
    IF k > Len(lists) THEN b
    ELSE TrackedNestedOuter(TrackedNestedInner(b, lists[k], isOrdered, 0),
                            lists, isOrdered, k + 1)

TrackedNestedList(b, lists, isOrdered) ==
    WriteString(TrackedNestedOuter(b, lists, isOrdered, 1), "\n")

\* The iterations i .. n-1 of the loop over items; checked[i] is read
\* without a test of i against len(checked).
RECURSIVE TrackedTaskListLoop(_, _, _, _, _)
TrackedTaskListLoop(b, items, checked, i, n) ==
    IF i >= n THEN b
    ELSE TrackedTaskListLoop(
             WriteString(b, "- [" \o (IF checked[i + 1] THEN "x" ELSE " ")
                            \o "] " \o items[i + 1] \o "\n"),
             items, checked, i + 1, n)

TrackedTaskList(b, items, checked) ==
    WriteString(TrackedTaskListLoop(b, items, checked, 0, Len(items)), "\n")

\* The index expression checked[i] panics when i is outside the slice.
TrackedTaskListPanics(items, checked) == Len(items) > Len(checked)

TrackedAlignCell(alignType) ==
    CASE alignType = "left"   -> "|:---"
      [] alignType = "center" -> "|:---:"
      [] alignType = "right"  -> "|---:"
      [] OTHER                -> "|---"

RECURSIVE TrackedAlignment(_, _, _)
TrackedAlignment(alignment, align, k) ==
    IF k > Len(align) THEN alignment
    ELSE TrackedAlignment(alignment \o TrackedAlignCell(align[k]), align, k + 1)

RECURSIVE TrackedTableRows(_, _, _)
TrackedTableRows(b, rows, k) ==
    IF k > Len(rows) THEN b
    ELSE TrackedTableRows(
             WriteString(b, "| " \o Join(rows[k], " | ") \o " |\n"), rows, k + 1)

TrackedTable(b, headers, rows, align) ==
    LET b1 == WriteString(b, "| " \o Join(headers, " | ") \o " |\n")
        b2 == WriteString(b1, TrackedAlignment("", align, 1) \o "|\n")
    IN  WriteString(TrackedTableRows(b2, rows, 1), "\n")

RECURSIVE TrackedFootnoteLines(_, _, _)
TrackedFootnoteLines(b, lines, k) ==
    IF k > Len(lines) THEN b
    ELSE TrackedFootnoteLines(WriteString(b, lines[k] \o "\n"), lines, k + 1)

TrackedMultiLineFootnote(b, label, lines) ==
    WriteString(
        TrackedFootnoteLines(WriteString(b, "[" \o label \o "]: "), lines, 1),
        "[Return to text](#fn-" \o label \o "-back)\n\n")

TrackedSpecialChars ==
    <<"\\", Backtick, "*", "_", "{", "}", "[", "]", "(", ")", "#", "+", "-",
      ".", "!">>

RECURSIVE TrackedEscapeLoop(_, _)
TrackedEscapeLoop(escaped, k) ==
    IF k > Len(TrackedSpecialChars) THEN escaped
    ELSE LET char == TrackedSpecialChars[k]
             replaced == ReplaceAll(escaped, char, "\\" \o char)
         IN  IF replaced = escaped THEN TrackedEscapeLoop(escaped, k + 1)
             ELSE TrackedEscapeLoop(replaced, k + 1)

TrackedEscape(text) == TrackedEscapeLoop(text, 1)

TrackedToHTML(b) == "<html>" \o ReplaceAll(b, "\n", "<br>") \o "</html>"

(***************************************************************************)
(* The heading-tracking variant as a state machine.                        *)
(***************************************************************************)
InitTracked ==
    /\ OneCaller
    /\ content = ""                  \* the zero strings.Builder
    /\ headings = <<>>               \* the nil slice
    /\ flavor = StandardMarkdown     \* not a field of this variant
    /\ useColor = FALSE              \* not a field of this variant
    /\ call = [op |-> "New"]
    /\ before = ""
    /\ ret = ""
    /\ panicked = FALSE
    /\ nops = 0

TrackedCallFrontMatter ==
    \E metadata \in MetadataMaps :
        \E order \in KeyOrders(metadata) :
            Write([op |-> "FrontMatter", metadata |-> metadata],
                  TrackedFrontMatter(content, metadata, order))

TrackedCallHeading ==
    \E level \in Levels, text \in Texts, id \in {"", "i"} :
        /\ ~panicked
        /\ nops < MaxOps
        /\ call' = [op |-> "Heading", level |-> level, text |-> text, id |-> id]
        /\ before' = content
        /\ content' = TrackedHeading(content, level, text, id)
        /\ headings' = TrackedHeadingLog(headings, level, text, id)
        /\ ret' = ""
        /\ nops' = nops + 1
        /\ UNCHANGED <<flavor, useColor, panicked, twin, callers, mutex>>

TrackedCallTableOfContents ==
    Write([op |-> "TableOfContents"], TableOfContents(content, headings))

TrackedCallParagraph ==
    \E text \in Texts, formats \in FormatLists :
        Write([op |-> "Paragraph", text |-> text, formats |-> formats],
              TrackedParagraph(content, text, formats))

TrackedCallBold ==
    \E text \in Texts : Return([op |-> "Bold", text |-> text], Bold(text))

TrackedCallItalic ==
    \E text \in Texts : Return([op |-> "Italic", text |-> text], Italic(text))

TrackedCallStrikethrough ==
    \E text \in Texts :
        Return([op |-> "Strikethrough", text |-> text], Strikethrough(text))

TrackedCallInlineCode ==
    \E text \in Texts :
        Return([op |-> "InlineCode", text |-> text], InlineCode(text))

TrackedCallMathBlock ==
    \E equation \in Texts :
        Write([op |-> "MathBlock", equation |-> equation],
              WriteString(content, "$$\n" \o equation \o "\n$$\n\n"))

TrackedCallMermaidDiagram ==
    \E diagram \in Texts :
        Write([op |-> "MermaidDiagram", diagram |-> diagram],
              WriteString(content, Backtick \o Backtick \o Backtick \o "mermaid\n"
                                   \o diagram \o "\n" \o Backtick \o Backtick
                                   \o Backtick \o "\n\n"))

TrackedCallCustomDiv ==
    \E className \in {"note"}, divContent \in Texts :
        Write([op |-> "CustomDiv", className |-> className,
               content |-> divContent],
              WriteString(content, "::: " \o className \o "\n" \o divContent
                                   \o "\n:::\n\n"))

TrackedCallEmoji ==
    \E emoji \in {"", "smile"} :
        Write([op |-> "Emoji", emoji |-> emoji], WriteString(content, ":" \o emoji \o ":\n\n"))

TrackedCallLink ==
    \E text \in Texts, url \in {"", "u"} :
        Return([op |-> "Link", text |-> text, url |-> url], Link(text, url))

TrackedCallAutoLink ==
    \E url \in {"", "u"} :
        Write([op |-> "AutoLink", url |-> url], WriteString(content, "<" \o url \o ">\n\n"))

TrackedCallImage ==
    \E altText \in Texts, url \in {"", "u"} :
        Write([op |-> "Image", altText |-> altText, url |-> url],
              WriteString(content, "![" \o altText \o "](" \o url \o ")\n\n"))

TrackedCallCodeBlock ==
    \E language \in {"go"}, code \in Texts :
        Write([op |-> "CodeBlock", language |-> language, code |-> code],
              WriteString(content, Backtick \o Backtick \o Backtick \o language \o "\n"
                                   \o code \o "\n" \o Backtick \o Backtick
                                   \o Backtick \o "\n\n"))

TrackedCallUnorderedList ==
    \E items \in ItemLists :
        Write([op |-> "UnorderedList", items |-> items],
              UnorderedList(content, items))

TrackedCallOrderedList ==
    \E items \in ItemLists :
        Write([op |-> "OrderedList", items |-> items],
              OrderedList(content, items))

TrackedCallNestedList ==
    \E lists \in NestedLists, isOrdered \in BOOLEAN :
        Write([op |-> "NestedList", lists |-> lists, isOrdered |-> isOrdered],
              TrackedNestedList(content, lists, isOrdered))

\* A call with fewer flags than items writes the items that have a flag and
\* panics at the first item that has none.
TrackedCallTaskList ==
    \E items \in TaskItemLists, checked \in CheckedLists :
        LET c == [op |-> "TaskList", items |-> items, checked |-> checked]
        IN  IF TrackedTaskListPanics(items, checked)
            THEN Panic(c, TrackedTaskListLoop(content, items, checked, 0,
                                              Len(checked)))
            ELSE Write(c, TrackedTaskList(content, items, checked))

TrackedCallTable ==
    \E headers \in HeaderLists, rows \in RowLists, align \in AlignLists :
        Write([op |-> "Table", headers |-> headers, rows |-> rows,
               align |-> align],
              TrackedTable(content, headers, rows, align))

TrackedCallFootnote ==
    \E label \in {"", "1"}, text \in Texts :
        Write([op |-> "Footnote", label |-> label, text |-> text],
              WriteString(content, "[" \o label \o "]: " \o text
                                   \o " [Return to text](#fn-" \o label
                                   \o "-back)\n"))

TrackedCallMultiLineFootnote ==
    \E label \in {"", "1"}, lines \in ItemLists :
        Write([op |-> "MultiLineFootnote", label |-> label, lines |-> lines],
              TrackedMultiLineFootnote(content, label, lines))

TrackedCallBlockquote ==
    \E text \in Texts :
        Write([op |-> "Blockquote", text |-> text],
              WriteString(content, "> " \o text \o "\n\n"))

TrackedCallHorizontalRule ==
    Write([op |-> "HorizontalRule"], WriteString(content, "---\n\n"))

TrackedCallEscape ==
    \E text \in {"", "X", "a*b"} :
        Return([op |-> "Escape", text |-> text], TrackedEscape(text))

TrackedCallToHTML == Return([op |-> "ToHTML"], TrackedToHTML(content))

TrackedCallGetContent ==
    Return([op |-> "GetContent"], content)

NextTracked ==
    \/ TrackedCallFrontMatter
    \/ TrackedCallHeading
    \/ TrackedCallTableOfContents
    \/ TrackedCallParagraph
    \/ TrackedCallBold
    \/ TrackedCallItalic
    \/ TrackedCallStrikethrough
    \/ TrackedCallInlineCode
    \/ TrackedCallMathBlock
    \/ TrackedCallMermaidDiagram
    \/ TrackedCallCustomDiv
    \/ TrackedCallEmoji
    \/ TrackedCallLink
    \/ TrackedCallAutoLink
    \/ TrackedCallImage
    \/ TrackedCallCodeBlock
    \/ TrackedCallUnorderedList
    \/ TrackedCallOrderedList
    \/ TrackedCallNestedList
    \/ TrackedCallTaskList
    \/ TrackedCallTable
    \/ TrackedCallFootnote
    \/ TrackedCallMultiLineFootnote
    \/ TrackedCallBlockquote
    \/ TrackedCallHorizontalRule
    \/ TrackedCallEscape
    \/ TrackedCallToHTML
    \/ TrackedCallGetContent

SpecTracked == InitTracked /\ [][NextTracked]_vars

(***************************************************************************)
(* A Document of the heading-tracking variant on which only Heading and    *)
(* TableOfContents are called, up to MaxTocOps times.                      *)
(***************************************************************************)
TocHeadings ==
    { [level |-> 1, text |-> "Title", id |-> ""],
      [level |-> 2, text |-> "Introduction", id |-> "intro"],
      [level |-> 2, text |-> "Content", id |-> "content"],
      [level |-> 7, text |-> "", id |-> ""] }

TocCallHeading ==
    /\ ~panicked
    /\ nops < MaxTocOps
    /\ \E h \in TocHeadings :
           /\ call' = [op |-> "Heading", level |-> h.level, text |-> h.text,
                       id |-> h.id]
           /\ content' = TrackedHeading(content, h.level, h.text, h.id)
           /\ headings' = TrackedHeadingLog(headings, h.level, h.text, h.id)
    /\ before' = content
    /\ ret' = ""
    /\ nops' = nops + 1
    /\ UNCHANGED <<flavor, useColor, panicked, twin, callers, mutex>>

TocCallTableOfContents ==
    /\ ~panicked
    /\ nops < MaxTocOps
    /\ call' = [op |-> "TableOfContents"]
    /\ before' = content
    /\ content' = TableOfContents(content, headings)
    /\ ret' = ""
    /\ nops' = nops + 1
    /\ UNCHANGED <<flavor, useColor, panicked, headings, twin, callers, mutex>>

SpecToc == InitTracked /\ [][TocCallHeading \/ TocCallTableOfContents]_vars

(***************************************************************************)
(* Two Documents built by New with any two configurations, which then      *)
(* receive the same calls with the same arguments.  The first is the       *)
(* Document of the variables content, flavor and useColor; the second is   *)
(* twin.doc, and twin.ret is what the last call returned on it.            *)
(***************************************************************************)
TwinCalls ==
    { [op |-> "FrontMatter", metadata |-> [k \in {"title"} |-> "T"]],
      [op |-> "Heading", level |-> 2, text |-> "X", id |-> "i", attributes |-> ""],
      [op |-> "Paragraph", text |-> "X", formats |-> <<"bold", "italic">>],
      [op |-> "CodeBlock", language |-> "go", code |-> "x"],
      [op |-> "List", items |-> <<"a", "b">>, isOrdered |-> TRUE],
      [op |-> "Table", headers |-> <<"h", "g">>, rows |-> <<<<"c", "d">>>>,
       align |-> <<"left">>],
      [op |-> "Blockquote", text |-> "X"],
      [op |-> "HorizontalRule"],
      [op |-> "Footnote", label |-> "1", text |-> "n"],
      [op |-> "TaskList", items |-> <<"A", "B">>, checked |-> <<TRUE>>],
      [op |-> "MathBlock", equation |-> "e"] }

InitTwin ==
    /\ flavor \in Flavors
    /\ useColor \in BOOLEAN
    /\ content = New(flavor, useColor).content
    /\ \E f \in Flavors, c \in BOOLEAN : twin = [doc |-> New(f, c), ret |-> ""]
    /\ callers = <<>>
    /\ mutex = [used |-> FALSE, holder |-> 0]
    /\ call = [op |-> "New"]
    /\ before = ""
    /\ ret = ""
    /\ panicked = FALSE
    /\ headings = <<>>
    /\ nops = 0

\* The same call c has ended on both Documents: b and r are the buffer and
\* the returned string of the first, tb and tr those of the second.
TwinStep(c, b, r, tb, tr) ==
    /\ nops < MaxOps
    /\ call' = c
    /\ before' = content
    /\ content' = b
    /\ ret' = r
    /\ twin' = [doc |-> [twin.doc EXCEPT !.content = tb], ret |-> tr]
    /\ nops' = nops + 1
    /\ UNCHANGED <<flavor, useColor, panicked, headings, callers, mutex>>

TwinAppend ==
    \E c \in TwinCalls :
        TwinStep(c, Apply(c, content), "", Apply(c, twin.doc.content), "")

TwinColorText ==
    \E text \in {"X"}, color \in {"", "red"} :
        TwinStep([op |-> "ColorText", text |-> text, color |-> color],
                 content, ColorText(useColor, text, color),
                 twin.doc.content, ColorText(twin.doc.useColor, text, color))

TwinToHTML ==
    TwinStep([op |-> "ToHTML"], content, ToHTML(content),
             twin.doc.content, ToHTML(twin.doc.content))

TwinGetContent ==
    TwinStep([op |-> "GetContent"], content, GetContent(content),
             twin.doc.content, GetContent(twin.doc.content))

SpecTwin ==
    InitTwin /\ [][TwinAppend \/ TwinColorText \/ TwinToHTML \/ TwinGetContent]_vars

(***************************************************************************)
(* One Document shared by two goroutines.  The struct holds a              *)
(* strings.Builder and no lock, and WriteString is an unsynchronized       *)
(* read of the buffer followed by a write of the extended buffer.  Each    *)
(* caller makes one call; the call is a sequence of WriteString calls,     *)
(* each a load step and a store step.  When mutex.used, every caller       *)
(* holds one exclusive lock from before its call to after it; otherwise    *)
(* the steps of the two callers interleave freely, so that a store may     *)
(* discard what the other caller stored since the load.                    *)
(***************************************************************************)
Callers == {1, 2}

SharedCalls ==
    { [op |-> "List", items |-> <<>>, isOrdered |-> FALSE],
      [op |-> "List", items |-> <<"a", "b">>, isOrdered |-> FALSE],
      [op |-> "List", items |-> <<"c", "d">>, isOrdered |-> TRUE],
      [op |-> "Table", headers |-> <<"h">>, rows |-> <<<<"c">>, <<"c", "d">>>>,
       align |-> <<"left">>],
      [op |-> "MultiLineFootnote", label |-> "1", lines |-> <<"p", "q">>] }

\* The arguments of the WriteString calls that the call c makes, in order.
WritesOf(c) ==
    CASE c.op = "List" ->
             IF Len(c.items) = 0 THEN <<>>
             ELSE [i \in 1..Len(c.items) |->
                      IF c.isOrdered
                      THEN Itoa(i) \o ". " \o c.items[i] \o "\n"
                      ELSE "- " \o c.items[i] \o "\n"] \o <<"\n">>
      [] c.op = "Table" ->
             IF TableEmpty(c.headers, c.rows) THEN <<>>
             ELSE LET headerLine == "| " \o Join(c.headers, " | ") \o " |\n"
                      alignment == Alignment(c.headers, c.align)
                      Kept(row) == ~TableRowSkipped(row, c.headers)
                      kept == SelectSeq(c.rows, Kept)
                  IN  <<headerLine \o alignment \o "\n">>
                      \o [k \in 1..Len(kept) |-> "| " \o Join(kept[k], " | ") \o " |\n"]
                      \o <<"\n">>
      [] c.op = "MultiLineFootnote" ->
             IF c.label = "" \/ Len(c.lines) = 0 THEN <<>>
             ELSE <<"[" \o c.label \o "]: ">>
                  \o [k \in 1..Len(c.lines) |-> c.lines[k] \o "\n"]
                  \o <<"[Return to text](#fn-" \o c.label \o "-back)\n\n">>

InitShared ==
    /\ content = New(StandardMarkdown, FALSE).content
    /\ flavor = StandardMarkdown
    /\ useColor = FALSE
    /\ twin = [doc |-> New(StandardMarkdown, FALSE), ret |-> ""]
    /\ \E c1 \in SharedCalls, c2 \in SharedCalls :
           callers = [w \in Callers |->
                         [call |-> IF w = 1 THEN c1 ELSE c2,
                          writes |-> WritesOf(IF w = 1 THEN c1 ELSE c2),
                          k |-> 1, pc |-> "idle", buf |-> ""]]
    /\ \E used \in BOOLEAN : mutex = [used |-> used, holder |-> 0]
    /\ call = [op |-> "New"]
    /\ before = ""
    /\ ret = ""
    /\ panicked = FALSE
    /\ headings = <<>>
    /\ nops = 0

\* Caller w starts its call: it takes the lock first when the callers use
\* one; a call with nothing to write returns at its first test.
CallerBeginNoWait(w) ==
    /\ callers[w].pc = "idle"
    /\ mutex' = IF mutex.used THEN [mutex EXCEPT !.holder = w] ELSE mutex
    /\ callers' = [callers EXCEPT ![w].pc =
                       IF Len(callers[w].writes) = 0 THEN "return" ELSE "load"]
    /\ call' = callers[w].call
    /\ before' = content
    /\ UNCHANGED <<content, flavor, useColor, ret, panicked, headings, nops, twin>>
CallerBegin(w) ==
    /\ callers[w].pc = "idle"
    /\ mutex.used => mutex.holder = 0
    /\ mutex' = IF mutex.used THEN [mutex EXCEPT !.holder = w] ELSE mutex
    /\ callers' = [callers EXCEPT ![w].pc =
                       IF Len(callers[w].writes) = 0 THEN "return" ELSE "load"]
    /\ call' = callers[w].call
    /\ before' = content
    /\ UNCHANGED <<content, flavor, useColor, ret, panicked, headings, nops, twin>>

\* WriteString, first half: caller w reads the buffer.
CallerLoad(w) ==
    /\ callers[w].pc = "load"
    /\ callers' = [callers EXCEPT ![w].buf = content, ![w].pc = "store"]
    /\ UNCHANGED <<content, flavor, useColor, call, before, ret, panicked,
                   headings, nops, twin, mutex>>

\* WriteString, second half: caller w writes back what it read, extended
\* by the argument of its k-th WriteString call.
CallerStore(w) ==
    /\ callers[w].pc = "store"
    /\ content' = WriteString(callers[w].buf, callers[w].writes[callers[w].k])
    /\ callers' = [callers EXCEPT
                       ![w].k = @ + 1,
                       ![w].pc = IF callers[w].k = Len(callers[w].writes)
                                 THEN "return" ELSE "load"]
    /\ UNCHANGED <<flavor, useColor, call, before, ret, panicked, headings,
                   nops, twin, mutex>>

\* Caller w's call returns, and w gives up the lock if it holds it.
CallerEnd(w) ==
    /\ callers[w].pc = "return"
    /\ callers' = [callers EXCEPT ![w].pc = "done"]
    /\ mutex' = IF mutex.holder = w THEN [mutex EXCEPT !.holder = 0] ELSE mutex
    /\ nops' = nops + 1
    /\ UNCHANGED <<content, flavor, useColor, call, before, ret, panicked,
                   headings, twin>>

SpecShared ==
    InitShared /\ [][\E w \in Callers : \/ CallerBegin(w)
                                         \/ CallerLoad(w)
                                         \/ CallerStore(w)
                                         \/ CallerEnd(w)]_vars

(***************************************************************************)
(* Properties.                                                             *)
(***************************************************************************)
IsPrefix(p, s) == Len(p) <= Len(s) /\ SubSeq(s, 1, Len(p)) = p

\* C1: content only grows: the buffer before a call is a prefix of the buffer
\* after it, for every call of every operation.
C1_ContentOnlyGrows == [][IsPrefix(content, content')]_vars

\* Two calls have written, the second after the first.
C1_Witness ==
    /\ before # ""
    /\ Len(content) > Len(before)
    /\ IsPrefix(before, content)

\* C2: the buffer after a call is the buffer before it followed by the
\* fragment that the same call with the same arguments appends to a fresh
\* empty Document, so the buffer is the concatenation of the fragments of the
\* calls in call order and no fragment depends on what the buffer holds.
C2_FragmentsConcatenate ==
    content = before \o Apply(call, New(flavor, useColor).content)

\* A call has appended a non-empty fragment to a non-empty buffer.
C2_Witness ==
    /\ before # ""
    /\ Apply(call, "") # ""
    /\ content = before \o Apply(call, "")

EmptyInputCall ==
    \/ call.op = "Paragraph" /\ call.text = ""
    \/ call.op = "Heading" /\ call.text = ""
    \/ call.op = "List" /\ Len(call.items) = 0
    \/ call.op = "Table" /\ (Len(call.headers) = 0 \/ Len(call.rows) = 0)
    \/ call.op = "ReferenceLink"
         /\ (call.label = "" \/ call.text = "" \/ call.url = "")
    \/ call.op = "Footnote" /\ (call.label = "" \/ call.text = "")

\* C4: Paragraph or Heading with empty text, List with no items, Table with no
\* headers or no rows, ReferenceLink with an empty label, text or url and
\* Footnote with an empty label or text leave the buffer exactly as it was.
C4_EmptyInputsLeaveBuffer == EmptyInputCall => content = before

\* A Table call with headers but no rows has left a non-empty buffer as it was.
C4_Witness ==
    /\ call.op = "Table"
    /\ Len(call.headers) > 0
    /\ Len(call.rows) = 0
    /\ before # ""
    /\ content = before

ClampedLevel(level) == IF level \in 1..6 THEN level ELSE 1

\* C5: Heading(level, text, id) with a non-empty text and no attributes appends
\* L '#' characters, a space, the text, " {#id}" exactly when id is non-empty,
\* and two newlines, where L is the level when it is in 1..6 and 1 otherwise.
C5_HeadingFragment ==
    (call.op = "Heading" /\ call.text # "" /\ call.attributes = "") =>
        content = before \o SubSeq("######", 1, ClampedLevel(call.level))
                         \o " " \o call.text
                         \o (IF call.id # "" THEN " {#" \o call.id \o "}" ELSE "")
                         \o "\n\n"

\* Heading(7, "X", "") has appended "# X" and two newlines.
C5_Witness ==
    /\ call.op = "Heading"
    /\ call.level = 7
    /\ call.text = "X"
    /\ call.id = ""
    /\ call.attributes = ""
    /\ content = before \o "# X\n\n"

IsSpecial(c) ==
    c \in {"\\", Backtick, "*", "_", "{", "}", "[", "]", "(", ")", "#", "+",
           "-", ".", "!"}

HasSpecial(text) == \E k \in 1..Len(text) : IsSpecial(CharAt(text, k))

\* One scan from left to right that puts one backslash before each character
\* of the escape set.
RECURSIVE SinglePassEscape(_)
SinglePassEscape(text) ==
    IF Len(text) = 0 THEN ""
    ELSE (IF IsSpecial(CharAt(text, 1)) THEN "\\" \o CharAt(text, 1)
          ELSE CharAt(text, 1))
         \o SinglePassEscape(SubSeq(text, 2, Len(text)))

\* C6: Escape returns the result of a single left-to-right scan: one backslash
\* is added before each character of the escape set, a backslash of the input
\* becomes two backslashes and nothing else changes.
C6_EscapeSinglePass ==
    call.op = "Escape" => ret = SinglePassEscape(call.text)

\* C7: Escape is not idempotent: when the text holds a character of the escape
\* set, escaping the result again gives a different text; when it holds none,
\* Escape returns the text unchanged.
C7_EscapeNotIdempotent ==
    call.op = "Escape" =>
        /\ HasSpecial(call.text) => Escape(ret) # ret
        /\ ~HasSpecial(call.text) => ret = call.text

\* Escape("a*b") has returned a\*b, which a second Escape makes longer.
C7_Witness ==
    /\ call.op = "Escape"
    /\ call.text = "a*b"
    /\ ret = "a\\*b"
    /\ Len(Escape(ret)) > Len(ret)

\* "| c1 | ... | cn |" without the newline.
RECURSIVE CellsLine(_)
CellsLine(cells) ==
    IF Len(cells) = 0 THEN "|"
    ELSE "| " \o cells[1] \o " " \o CellsLine(Tail(cells))

AlignCellOf(a) ==
    IF a = "left" THEN ":---|"
    ELSE IF a = "center" THEN ":---:|"
    ELSE IF a = "right" THEN "---:|"
    ELSE "---|"

RECURSIVE AlignCells(_)
AlignCells(align) ==
    IF Len(align) = 0 THEN ""
    ELSE AlignCellOf(align[1]) \o AlignCells(Tail(align))

\* The rows with n cells, in their original order.
RECURSIVE RowsOfLength(_, _)
RowsOfLength(rows, n) ==
    IF Len(rows) = 0 THEN <<>>
    ELSE IF Len(rows[1]) = n THEN <<rows[1]>> \o RowsOfLength(Tail(rows), n)
    ELSE RowsOfLength(Tail(rows), n)

RECURSIVE RowLines(_)
RowLines(rows) ==
    IF Len(rows) = 0 THEN ""
    ELSE CellsLine(rows[1]) \o "\n" \o RowLines(Tail(rows))

\* C8: for non-empty headers and rows, Table appends the header line, an
\* alignment line that starts with "|" and holds one cell per entry of align
\* (and not per header), one line per row whose cell count equals the header
\* count, and one empty line.
C8_TableFragment ==
    (call.op = "Table" /\ Len(call.headers) > 0 /\ Len(call.rows) > 0) =>
        content = before \o CellsLine(call.headers) \o "\n"
                         \o "|" \o AlignCells(call.align) \o "\n"
                         \o RowLines(RowsOfLength(call.rows, Len(call.headers)))
                         \o "\n"

\* A table of two columns with one align entry has one alignment cell.
C8_Witness ==
    /\ call.op = "Table"
    /\ call.headers = <<"h", "g">>
    /\ call.rows = <<<<"c", "d">>>>
    /\ call.align = <<"left">>
    /\ content = before \o "| h | g |\n|:---|\n| c | d |\n\n"

\* The text that the last call has appended.
Fragment == SubSeq(content, Len(before) + 1, Len(content))

\* The lines of a text, each without the newline that ends it.
FirstNewline(text) ==
    LET at == { i \in 1..Len(text) : CharAt(text, i) = "\n" }
    IN  IF at = {} THEN 0 ELSE CHOOSE i \in at : \A j \in at : i <= j

RECURSIVE Lines(_)
Lines(text) ==
    IF Len(text) = 0 THEN <<>>
    ELSE LET i == FirstNewline(text)
         IN  IF i = 0 THEN <<text>>
             ELSE <<SubSeq(text, 1, i - 1)>>
                      \o Lines(SubSeq(text, i + 1, Len(text)))

\* C9: a row whose cell count differs from the header count leaves no line in
\* the buffer, and every row with the matching count, before or after a
\* dropped row, leaves its line, in the original order: the lines between the
\* alignment line and the closing empty line are the lines of the matching
\* rows.
C9_RowsDroppedIndividually ==
    (call.op = "Table" /\ Len(call.headers) > 0 /\ Len(call.rows) > 0) =>
        LET lines == Lines(Fragment)
            kept == RowsOfLength(call.rows, Len(call.headers))
        IN  /\ Len(lines) = Len(kept) + 3
            /\ \A k \in 1..Len(kept) : lines[k + 2] = CellsLine(kept[k])
            /\ lines[Len(lines)] = ""

\* A one-cell row between two rows of two cells is dropped and both others
\* are emitted in order.
C9_Witness ==
    /\ call.op = "Table"
    /\ call.headers = <<"h", "g">>
    /\ call.rows = <<<<"e", "f">>, <<"c">>, <<"c", "d">>>>
    /\ Lines(Fragment) = <<"| h | g |", "|", "| e | f |", "| c | d |", "">>

RECURSIVE TaskLines(_, _, _)
TaskLines(items, checked, i) ==
    IF i > Len(items) THEN ""
    ELSE (IF i <= Len(checked) /\ checked[i]
          THEN "- [x] " \o items[i] ELSE "- [ ] " \o items[i])
         \o "\n" \o TaskLines(items, checked, i + 1)

\* C10: TaskList renders the item at index i as "- [x] item" exactly when
\* checked has an entry at i and that entry is true, and as "- [ ] item"
\* otherwise (the items here are non-empty texts), and ends with an empty line.
C10_TaskListFlags ==
    (/\ call.op = "TaskList"
     /\ Len(call.items) > 0
     /\ \A i \in 1..Len(call.items) : call.items[i] # "") =>
        content = before \o TaskLines(call.items, call.checked, 1) \o "\n"

\* TaskList(["A","B"], [true]) has appended a checked A and an unchecked B.
C10_Witness ==
    /\ call.op = "TaskList"
    /\ call.items = <<"A", "B">>
    /\ call.checked = <<TRUE>>
    /\ content = before \o "- [x] A\n- [ ] B\n\n"

\* C3: no operation of the Document fails: a heading level outside 1..6, a
\* table row of another length than the headers and a TaskList call with
\* fewer checked flags than items all return normally.
C3_NoOperationPanics == ~panicked

\* The line of one key of the front matter, empty when the map lacks the key.
MetadataLine(metadata, key) ==
    IF key \in DOMAIN metadata
    THEN key \o ": \"" \o metadata[key] \o "\"\n"
    ELSE ""

\* C11: FrontMatter appends a "---" line, the lines of title, author and date
\* in that order, each only when the map has the key, then a "---" line and an
\* empty line.  The fragment is a function of the map's entries for these
\* three keys alone: no other key reaches the buffer, and the order in which
\* the Go runtime would visit the map plays no part.
C11_FrontMatterFixedKeys ==
    call.op = "FrontMatter" =>
        Fragment = "---\n" \o MetadataLine(call.metadata, "title")
                          \o MetadataLine(call.metadata, "author")
                          \o MetadataLine(call.metadata, "date")
                          \o "---\n\n"

\* A map with the keys extra, date, author and title has been rendered: the
\* three known keys in the fixed order and no line for extra.
C11_Witness ==
    /\ call.op = "FrontMatter"
    /\ DOMAIN call.metadata = {"extra", "date", "author", "title"}
    /\ call.metadata["title"] = "T"
    /\ call.metadata["author"] = "U"
    /\ call.metadata["date"] = "T"
    /\ before # ""
    /\ Fragment = "---\ntitle: \"T\"\nauthor: \"U\"\ndate: \"T\"\n---\n\n"

\* The record of a Heading call and the line that the call emits.
HeadingRecord(c) ==
    [Text |-> SubSeq("######", 1, ClampedLevel(c.level)) \o " " \o c.text,
     ID |-> c.id]

HeadingLine(r) == r.Text \o (IF r.ID # "" THEN " {#" \o r.ID \o "}" ELSE "")

\* C12: the heading log starts empty; a Heading call emits its heading line
\* and adds the record of that heading at the end of the log, whether or not
\* an equal record is already there; every other call, TableOfContents
\* included, leaves the log as it was.  So the log is the list of the records
\* of the emitted headings, in emission order, duplicates kept.
C12_HeadingLogIsEmissionHistory ==
    /\ headings = <<>>
    /\ [][IF call'.op = "Heading"
          THEN /\ headings' = headings \o <<HeadingRecord(call')>>
               /\ content' = content \o HeadingLine(HeadingRecord(call'))
                                     \o "\n\n"
          ELSE headings' = headings]_vars

\* The same heading has been emitted twice and the log holds both records.
C12_Witness ==
    /\ call.op = "Heading"
    /\ Len(headings) = 2
    /\ headings[1] = headings[2]
    /\ headings[2] = [Text |-> "## X", ID |-> "i"]
    /\ content = "## X {#i}\n\n## X {#i}\n\n"

TocTitle == "## Table of Contents"

\* A line that a Heading call has emitted: it starts with '#'.  (No heading
\* of TocHeadings renders as the title line of a table of contents.)
IsHeadingLine(line) ==
    Len(line) > 0 /\ CharAt(line, 1) = "#" /\ line # TocTitle

IsEntryLine(line) == Len(line) >= 2 /\ SubSeq(line, 1, 2) = "- "

\* The heading lines among the first k lines.
HeadingLinesIn(lines, k) == SelectSeq(SubSeq(lines, 1, k), IsHeadingLine)

\* The entries of the table of contents whose first entry line would be
\* line k, each without its "- ".
RECURSIVE EntriesFrom(_, _)
EntriesFrom(lines, k) ==
    IF k <= Len(lines) /\ IsEntryLine(lines[k])
    THEN <<SubSeq(lines[k], 3, Len(lines[k]))>> \o EntriesFrom(lines, k + 1)
    ELSE <<>>

\* C13: TableOfContents is a point-in-time replay.  Every table of contents
\* in the buffer, the one of the last call and those of all earlier calls,
\* lists exactly the headings that stand before it in the buffer, in that
\* order, and none that was emitted after it; and a TableOfContents call
\* does add such a table, with one entry per heading emitted before the call.
C13_TocIsPointInTimeReplay ==
    LET lines == Lines(content) IN
    /\ \A k \in 1..Len(lines) :
           lines[k] = TocTitle =>
               EntriesFrom(lines, k + 1) = HeadingLinesIn(lines, k - 1)
    /\ call.op = "TableOfContents" =>
           LET emitted == Lines(before) IN
           /\ Lines(Fragment)[1] = TocTitle
           /\ Len(EntriesFrom(Lines(Fragment), 2))
                  = Len(HeadingLinesIn(emitted, Len(emitted)))

\* Two headings, TableOfContents, a third heading, TableOfContents again: the
\* first table stands unchanged in the buffer with 2 entries, the second has 3.
C13_Witness ==
    /\ call.op = "TableOfContents"
    /\ Len(headings) = 3
    /\ content = "# Title\n\n## Introduction {#intro}\n\n"
                   \o "## Table of Contents\n- # Title\n"
                   \o "- ## Introduction {#intro}\n\n"
                   \o "## Content {#content}\n\n"
                   \o "## Table of Contents\n- # Title\n"
                   \o "- ## Introduction {#intro}\n- ## Content {#content}\n\n"

RECURSIVE TocEntryLines(_, _)
TocEntryLines(emitted, k) ==
    IF k > Len(emitted) THEN ""
    ELSE "- " \o emitted[k] \o "\n" \o TocEntryLines(emitted, k + 1)

\* C14: TableOfContents appends the line "## Table of Contents", then for
\* each heading emitted so far, in order, "- " followed by the heading's line
\* exactly as it stands in the buffer (hashes, text, and " {#id}" exactly when
\* the heading has an id), then one empty line.
C14_TocFragment ==
    call.op = "TableOfContents" =>
        LET emitted == HeadingLinesIn(Lines(before), Len(Lines(before)))
        IN  Fragment = TocTitle \o "\n" \o TocEntryLines(emitted, 1) \o "\n"

\* The three headings of TestTableOfContents and then TableOfContents.
C14_Witness ==
    /\ call.op = "TableOfContents"
    /\ before = "# Title\n\n## Introduction {#intro}\n\n"
                  \o "## Content {#content}\n\n"
    /\ Fragment = "## Table of Contents\n- # Title\n"
                    \o "- ## Introduction {#intro}\n- ## Content {#content}\n\n"

\* The marks that a format puts before and after a text.
FormatOpen(format) ==
    CASE format = "strikethrough" -> "~~"
      [] format = "bold"          -> "**"
      [] format = "italic"        -> "_"
      [] format = "underline"     -> "<u>"
      [] format = "subscript"     -> "<sub>"
      [] format = "superscript"   -> "<sup>"
      [] format = "code"          -> Backtick
      [] OTHER                    -> ""

FormatClose(format) ==
    CASE format = "underline"     -> "</u>"
      [] format = "subscript"     -> "</sub>"
      [] format = "superscript"   -> "</sup>"
      [] OTHER                    -> FormatOpen(format)

\* The opening marks of formats[k..] in listed order, and the closing marks
\* of formats[..k] in the opposite order.
RECURSIVE OpenMarks(_, _)
OpenMarks(formats, k) ==
    IF k > Len(formats) THEN ""
    ELSE FormatOpen(formats[k]) \o OpenMarks(formats, k + 1)

RECURSIVE CloseMarks(_, _)
CloseMarks(formats, k) ==
    IF k < 1 THEN ""
    ELSE FormatClose(formats[k]) \o CloseMarks(formats, k - 1)

\* The text wrapped so that formats[1] is the outermost wrapper.
FirstOutermost(text, formats) ==
    OpenMarks(formats, 1) \o text \o CloseMarks(formats, Len(formats))

\* C15: ApplyFormatting of the flavored library returns the text wrapped so
\* that the first listed format is the outermost wrapper and the last listed
\* format the innermost.
C15_FirstFormatOutermost ==
    call.op = "ApplyFormatting" =>
        ret = FirstOutermost(call.text, call.formats)

\* ApplyFormatting("Multiple Formats", "strikethrough", "bold", "italic")
\* has returned "~~**_Multiple Formats_**~~".
C15_Witness ==
    /\ call.op = "ApplyFormatting"
    /\ call.text = "Multiple Formats"
    /\ call.formats = <<"strikethrough", "bold", "italic">>
    /\ ret = "~~**_Multiple Formats_**~~"

Reverse(s) == [k \in 1..Len(s) |-> s[Len(s) + 1 - k]]

\* C16: Paragraph applies its formats in the order listed, so that the last
\* listed format is the outermost wrapper: Paragraph(text, "bold", "italic")
\* appends "_**text**_" and an empty line.
C16_ParagraphLastFormatOutermost ==
    (call.op = "Paragraph" /\ call.text # "") =>
        Fragment = FirstOutermost(call.text, Reverse(call.formats)) \o "\n\n"

\* The decimal numerals of 1..12.
Numeral ==
    <<"1", "2", "3", "4", "5", "6", "7", "8", "9", "10", "11", "12">>

\* The lines of the entries of the groups i.. of a nested list.
RECURSIVE NestedEntries(_, _, _)
NestedEntries(groups, ordered, i) ==
    IF i > Len(groups) THEN <<>>
    ELSE [j \in 1..Len(groups[i]) |->
             IF ordered THEN Numeral[i] \o ". " \o groups[i][j]
             ELSE IF j = 1 THEN "- " \o groups[i][j]
             ELSE "  - " \o groups[i][j]]
         \o NestedEntries(groups, ordered, i + 1)

\* C17: NestedList with at least one group appends, group by group, the
\* first entry of a group as "- item" and its later entries as "  - item"
\* when the list is unordered, and every entry of the i-th group as
\* "i. item" without indent when it is ordered, then one empty line; with no
\* group it appends nothing.
C17_NestedListFragment ==
    call.op = "NestedList" =>
        IF Len(call.nestedItems) = 0 THEN content = before
        ELSE /\ Lines(Fragment)
                    = NestedEntries(call.nestedItems, call.isOrdered, 1)
                          \o <<"">>
             /\ SubSeq(Fragment, Len(Fragment), Len(Fragment)) = "\n"

\* An ordered nested list of a group of two and a group of three entries:
\* the numbers are those of the groups.
C17_Witness ==
    /\ call.op = "NestedList"
    /\ call.isOrdered
    /\ call.nestedItems = <<<<"a", "b">>, <<"c", "d", "e">>>>
    /\ before # ""
    /\ Fragment = "1. a\n1. b\n2. c\n2. d\n2. e\n\n"

\* C18: List with at least one item appends one line per item in input
\* order, "- item" when unordered and "k. item" with k the 1-based position
\* of the item when ordered, then one empty line.
C18_ListFragment ==
    (call.op = "List" /\ Len(call.items) > 0) =>
        /\ Lines(Fragment)
               = [k \in 1..Len(call.items) |->
                     IF call.isOrdered
                     THEN Numeral[k] \o ". " \o call.items[k]
                     ELSE "- " \o call.items[k]]
                 \o <<"">>
        /\ SubSeq(Fragment, Len(Fragment), Len(Fragment)) = "\n"

\* An ordered list of eleven items is numbered 1 to 11.
C18_Witness ==
    /\ call.op = "List"
    /\ call.isOrdered
    /\ call.items = LongList
    /\ Lines(Fragment)[1] = "1. x"
    /\ Lines(Fragment)[10] = "10. x"
    /\ Lines(Fragment)[11] = "11. x"
    /\ Len(Lines(Fragment)) = 12

\* The lines of one term of a definition list: none when the map lacks the
\* term or gives it no definition.
TermLines(definitions, term) ==
    IF term \in DOMAIN definitions /\ Len(definitions[term]) > 0
    THEN <<term>>
             \o [k \in 1..Len(definitions[term]) |->
                    ": " \o definitions[term][k]]
             \o <<"">>
    ELSE <<>>

\* C19: DefinitionList renders "Term 1" and then "Term 2", each only when
\* it is a key of the map with at least one definition, as the term line,
\* one ": definition" line per definition in order and an empty line; every
\* other key of the map leaves nothing in the buffer, and so does an empty
\* map.
C19_DefinitionListFixedTerms ==
    call.op = "DefinitionList" =>
        LET expected == TermLines(call.definitions, "Term 1")
                            \o TermLines(call.definitions, "Term 2")
        IN  IF Len(expected) = 0 THEN content = before
            ELSE /\ Lines(Fragment) = expected
                 /\ SubSeq(Fragment, Len(Fragment), Len(Fragment)) = "\n"

\* A map with the keys Term 3, Term 2 and Term 1 has been rendered: Term 1
\* before Term 2 and nothing for Term 3.
C19_Witness ==
    /\ call.op = "DefinitionList"
    /\ DOMAIN call.definitions = {"Term 3", "Term 2", "Term 1"}
    /\ call.definitions["Term 1"] = <<"d", "e">>
    /\ call.definitions["Term 2"] = <<"d">>
    /\ call.definitions["Term 3"] = <<"d">>
    /\ before # ""
    /\ Fragment = "Term 1\n: d\n: e\n\nTerm 2\n: d\n\n"

\* C20: no call changes the color setting, and a ColorText call returns the
\* text inside a span of the given color when the setting is true and the
\* text itself when it is false.  The setting before any call is the one
\* given to New, so the result is decided at construction.
C20_ColorSettingFixed ==
    [][/\ useColor' = useColor
       /\ (call'.op = "ColorText" =>
              ret' = IF useColor
                     THEN "<span style=\"color:" \o call'.color \o "\">"
                              \o call'.text \o "</span>"
                     ELSE call'.text)]_vars

\* On a Document made with useColor = true that an earlier call has written
\* to, ColorText("X", "red") has returned the span.
C20_Witness ==
    /\ call.op = "ColorText"
    /\ useColor
    /\ content # ""
    /\ call.text = "X"
    /\ call.color = "red"
    /\ ret = "<span style=\"color:red\">X</span>"

\* The positions of the newlines of a text.
NewlinesOf(text) == { j \in 1..Len(text) : CharAt(text, j) = "\n" }

\* C21: ToHTML returns "<html>", the buffer with every newline replaced by
\* "<br>" and every other character kept in place, and "</html>": the
\* character at position i of the buffer stands in the result after the
\* opening tag, moved right by three places for every newline before it.
C21_ToHTMLReplacesNewlines ==
    call.op = "ToHTML" =>
        LET newlines == NewlinesOf(content)
            body == SubSeq(ret, 7, Len(ret) - 7)
        IN  /\ Len(ret) = 13 + Len(content) + 3 * Cardinality(newlines)
            /\ SubSeq(ret, 1, 6) = "<html>"
            /\ SubSeq(ret, Len(ret) - 6, Len(ret)) = "</html>"
            /\ \A i \in 1..Len(content) :
                   LET at == i + 3 * Cardinality({j \in newlines : j < i})
                   IN  IF i \in newlines
                       THEN SubSeq(body, at, at + 3) = "<br>"
                       ELSE CharAt(body, at) = CharAt(content, i)

\* After Paragraph("X") ToHTML has returned "<html>X<br><br></html>".
C21_Witness ==
    /\ call.op = "ToHTML"
    /\ content = "X\n\n"
    /\ ret = "<html>X<br><br></html>"

BackReference(label) == "[Return to text](#fn-" \o label \o "-back)"

\* C22: Footnote with a non-empty label and a non-empty text appends the one
\* line "[label]: text [Return to text](#fn-label-back)" and the newline that
\* ends it, with no empty line after it; with an empty label or an empty text
\* it appends nothing.
C22_FootnoteSingleLine ==
    call.op = "Footnote" =>
        IF call.label = "" \/ call.text = "" THEN content = before
        ELSE /\ Lines(Fragment)
                    = <<"[" \o call.label \o "]: " \o call.text \o " "
                            \o BackReference(call.label)>>
             /\ SubSeq(Fragment, Len(Fragment), Len(Fragment)) = "\n"

\* The footnote of TestFootnote has been appended after an earlier fragment.
C22_Witness ==
    /\ call.op = "Footnote"
    /\ before # ""
    /\ Fragment = "[1]: This is the footnote content. "
                    \o "[Return to text](#fn-1-back)\n"

\* C23: MultiLineFootnote with a non-empty label and at least one line
\* appends "[label]: " and the first line on one line, every later line on
\* a line of its own in order, the back reference line and an empty line;
\* with an empty label or no line it appends nothing.
C23_MultiLineFootnoteFragment ==
    call.op = "MultiLineFootnote" =>
        IF call.label = "" \/ Len(call.lines) = 0 THEN content = before
        ELSE /\ Lines(Fragment)
                    = <<"[" \o call.label \o "]: " \o call.lines[1]>>
                          \o Tail(call.lines)
                          \o <<BackReference(call.label), "">>
             /\ SubSeq(Fragment, Len(Fragment), Len(Fragment)) = "\n"

\* The footnote of TestMultiLineFootnote has been appended.
C23_Witness ==
    /\ call.op = "MultiLineFootnote"
    /\ before # ""
    /\ Fragment = "[1]: This is the first line.\nThis is the second line.\n"
                    \o "[Return to text](#fn-1-back)\n\n"

\* A call whose collection argument is empty.
EmptyCollectionCall ==
    \/ call.op = "List" /\ Len(call.items) = 0
    \/ call.op = "NestedList" /\ Len(call.nestedItems) = 0
    \/ call.op = "TaskList" /\ Len(call.items) = 0
    \/ call.op = "Table" /\ (Len(call.headers) = 0 \/ Len(call.rows) = 0)
    \/ call.op = "MultiLineFootnote" /\ Len(call.lines) = 0
    \/ call.op = "DefinitionList" /\ DOMAIN call.definitions = {}
    \/ call.op = "FrontMatter" /\ DOMAIN call.metadata = {}

\* C24: List, NestedList, TaskList, Table (headers, rows), MultiLineFootnote,
\* DefinitionList and FrontMatter called with an empty collection leave the
\* buffer exactly as it was before the call.
C24_EmptyCollectionsLeaveBuffer == EmptyCollectionCall => content = before

\* C25: TaskList skips an item of empty text and goes on: the lines of the
\* fragment are the lines of the non-empty items, in their original order,
\* each with the flag that checked holds at the item's own index in items
\* (unchecked when checked has no such index), and then the empty line.
C25_TaskListSkipsEmptyItems ==
    (call.op = "TaskList" /\ Len(call.items) > 0) =>
        LET NonEmpty(i) == call.items[i] # ""
            kept == SelectSeq([i \in 1..Len(call.items) |-> i], NonEmpty)
            Flag(i) == IF i <= Len(call.checked) /\ call.checked[i]
                       THEN "x" ELSE " "
        IN  /\ Lines(Fragment)
                   = [k \in 1..Len(kept) |->
                         "- [" \o Flag(kept[k]) \o "] " \o call.items[kept[k]]]
                     \o <<"">>
            /\ SubSeq(Fragment, Len(Fragment), Len(Fragment)) = "\n"

\* An empty item between two others: both others are rendered, the second
\* with the flag of index 3 and not with the flag of the skipped index 2.
C25_Witness ==
    /\ call.op = "TaskList"
    /\ call.items = <<"A", "", "B">>
    /\ call.checked = <<TRUE, TRUE, FALSE>>
    /\ Fragment = "- [x] A\n- [ ] B\n\n"

\* C26: in the heading-tracking Document a Heading call with an empty text
\* is skipped entirely: it appends nothing to the buffer and adds no record
\* to the heading log.
C26_EmptyHeadingSkipped ==
    [][(call'.op = "Heading" /\ call'.text = "") =>
           (content' = content /\ headings' = headings)]_vars

Written(w) == Join(SubSeq(callers[w].writes, 1, callers[w].k - 1), "")
Inside(w) == callers[w].pc \notin {"idle", "done"}

EndsWithNewline(text) == text = "" \/ CharAt(text, Len(text)) = "\n"

\* C29: after any calls of the flavored library the buffer is empty or ends
\* with a newline, so the fragment of every call starts at the beginning of
\* a line; also after Footnote, whose fragment ends with one newline, and
\* after a TaskList, NestedList or Table call whose items or rows are all
\* skipped.
C29_BufferEndsWithNewline ==
    /\ EndsWithNewline(content)
    /\ EndsWithNewline(before)
    /\ Fragment # "" => EndsWithNewline(Fragment)
    /\ (call.op = "TaskList" /\ call.items = <<"">>) => Fragment = "\n"
    /\ (call.op = "NestedList" /\ call.nestedItems = <<<<>>>>) => Fragment = "\n"
    /\ (call.op = "Table" /\ call.headers = <<"h", "g">> /\ call.rows = <<<<"c">>>>)
           => Fragment = "| h | g |\n|:---|\n\n"

C29_Witness ==
    /\ before = "[1]: X [Return to text](#fn-1-back)\n"
    /\ call.op = "TaskList"
    /\ call.items = <<"">>
    /\ Fragment = "\n"
    /\ EndsWithNewline(content)

StringReturning ==
    {"Escape", "ApplyFormatting", "Underline", "Subscript", "Superscript",
     "ColorText", "ToHTML", "GetContent"}

====
